---- MODULE Spec2Model ----
(***************************************************************************)
(* Model of polyaxon_k8s.manager.K8SManager: the read-then-act handlers    *)
(* create_or_update_<kind> / delete_<kind> and the cluster metadata        *)
(* accessors, running against a cluster API client whose calls either      *)
(* succeed or raise ApiException.                                          *)
(***************************************************************************)
EXTENDS Integers, Sequences, FiniteSets, TLC

\* ---- bounds ----
\* distinct request bodies the callers pass
MaxBody == 2
\* objects the cluster admits at a time (its quota); a create beyond it is refused
MaxResources == 1

\* ---- constants.py ----
K8S_API_VERSION_V1 == "v1"
K8S_API_VERSION_V1_BETA1 == "extensions/v1beta1"

\* K8SManager.__init__: namespace='default'
namespace == "default"

Kinds == {"ConfigMap", "Service", "Pod", "Deployment",
          "PersistentVolume", "PersistentVolumeClaim"}
Names == {"app-config"}
Bodies == 1..MaxBody
Absent == 0
NoName == ""

Callers == {1, 2}
\* callers of the synchronous, one-call-at-a-time specification
SeqCallers == {1}

CreateOrUpdateOps == {"create_or_update_config_map", "create_or_update_service",
                      "create_or_update_pod", "create_or_update_deployment",
                      "create_or_update_volume", "create_or_update_volume_claim"}
DeleteOps == {"delete_config_map", "delete_service", "delete_pod",
              "delete_deployment", "delete_volume", "delete_volume_claim"}
MetadataOps == {"get_version", "get_node_items", "update_node_labels"}
Ops == CreateOrUpdateOps \cup DeleteOps \cup MetadataOps

\* the resource kind each handler reads and writes
KindOf(op) ==
    CASE op \in {"create_or_update_config_map", "delete_config_map"} -> "ConfigMap"
      [] op \in {"create_or_update_service", "delete_service"} -> "Service"
      [] op \in {"create_or_update_pod", "delete_pod"} -> "Pod"
      [] op \in {"create_or_update_deployment", "delete_deployment"} -> "Deployment"
      [] op \in {"create_or_update_volume", "delete_volume"} -> "PersistentVolume"
      [] op \in {"create_or_update_volume_claim", "delete_volume_claim"}
             -> "PersistentVolumeClaim"
      [] op = "update_node_labels" -> "Node"
      [] OTHER -> ""

\* the client handle the handler calls
ClientOf(op) ==
    CASE op \in {"create_or_update_deployment", "delete_deployment"} -> "k8s_beta_api"
      [] op = "get_version" -> "k8s_version_api"
      [] OTHER -> "k8s_api"

\* mutant: the volume-claim calls copied from the volume ones, no namespace
NamespaceArgClaimAsVolume(op) ==
    IF op \in {"create_or_update_volume", "delete_volume",
               "create_or_update_volume_claim", "delete_volume_claim"} \cup MetadataOps
    THEN "" ELSE namespace

\* the namespace argument of the handler's client calls ("" when the call
\* takes none: read/patch/create/delete_persistent_volume, patch_node)
NamespaceArg(op) ==
    IF op \in {"create_or_update_volume", "delete_volume"} \cup MetadataOps
    THEN "" ELSE namespace

\* mutant: delete_volume and delete_volume_claim take a reraise flag too
HasReraiseVolumes(op) ==
    op \in {"get_version", "get_node_items", "update_node_labels",
            "create_or_update_config_map", "delete_config_map",
            "delete_volume", "delete_volume_claim"}

\* the handlers whose signature has a reraise parameter (default False)
HasReraise(op) ==
    op \in {"get_version", "get_node_items", "update_node_labels",
            "create_or_update_config_map", "delete_config_map"}

NoOptions == [given |-> FALSE, api_version |-> "", propagation_policy |-> ""]
V1DeleteOptions(v, p) == [given |-> TRUE, api_version |-> v, propagation_policy |-> p]

\* mutant: delete_deployment built with the core API version
DeleteOptionsOfCoreVersion(op) ==
    CASE op = "delete_service" -> NoOptions
      [] op = "delete_deployment" -> V1DeleteOptions(K8S_API_VERSION_V1, "Foreground")
      [] OTHER -> V1DeleteOptions(K8S_API_VERSION_V1, "")

\* mutant: delete_deployment copied from delete_pod, no propagation policy
DeleteOptionsOfNoPolicy(op) ==
    CASE op = "delete_service" -> NoOptions
      [] op = "delete_deployment" -> V1DeleteOptions(K8S_API_VERSION_V1_BETA1, "")
      [] OTHER -> V1DeleteOptions(K8S_API_VERSION_V1, "")

\* the delete-options argument of each delete handler's delete call
DeleteOptionsOf(op) ==
    CASE op = "delete_service" -> NoOptions
      [] op = "delete_deployment" -> V1DeleteOptions(K8S_API_VERSION_V1_BETA1, "Foreground")
      [] OTHER -> V1DeleteOptions(K8S_API_VERSION_V1, "")

VARIABLES cluster, call, prev
vars == <<cluster, call, prev>>

IdleCall == [pc |-> "idle", op |-> "", name |-> NoName, body |-> Absent,
             reraise |-> FALSE, found |-> FALSE, log |-> <<>>,
             outcome |-> "None", raised |-> "none", cause |-> "none"]

Init ==
    /\ cluster = [id \in Kinds \X Names |-> Absent]
    /\ call = [c \in Callers |-> IdleCall]
    /\ prev = [c \in Callers |-> IdleCall]

\* ---- the cluster API client (kubernetes.client), as the handlers use it ----
Present(cl, kind, name) == cl[<<kind, name>>] # Absent

\* results of read_<kind>(name[, namespace]): the object, or ApiException
\* (404 when the object does not exist, or any other failure)
ReadStatuses(cl, kind, name) ==
    IF Present(cl, kind, name) THEN {"ok", "Forbidden"} ELSE {"NotFound", "Forbidden"}

\* results of create_<kind>([namespace,] body): 409 when the object exists,
\* 403 when the cluster refuses it (always possible, certain once the quota
\* is reached)
CreateStatuses(cl, kind, name) ==
    IF Present(cl, kind, name) THEN {"Conflict", "Forbidden"}
    ELSE IF Cardinality({id \in DOMAIN cl : cl[id] # Absent}) >= MaxResources
         THEN {"Forbidden"}
         ELSE {"ok", "Forbidden"}

\* results of patch_<kind>(name, [namespace,] body)
PatchStatuses(cl, kind, name) ==
    IF Present(cl, kind, name) THEN {"ok", "Forbidden"} ELSE {"NotFound", "Forbidden"}

\* results of delete_<kind>(name, [namespace,] [options])
DeleteStatuses(cl, kind, name) ==
    IF Present(cl, kind, name) THEN {"ok", "Forbidden"} ELSE {"NotFound", "Forbidden"}

\* results of the node and version calls (nodes are not created or deleted here)
NodeStatuses == {"ok", "NotFound", "Forbidden"}
VersionStatuses == {"ok", "Forbidden"}

\* one call on a client handle, as issued by handler op, with its result
ClientCall(op, api, name, body, options, status) ==
    [client |-> ClientOf(op), api |-> api, kind |-> KindOf(op), name |-> name,
     namespace |-> NamespaceArg(op), body |-> body, options |-> options,
     status |-> status]

\* ---- the handlers' except blocks ----
\* mutant: delete_* attempts the delete although the read raised
AfterReadFailureDeletes(op, status) ==
    IF op \in CreateOrUpdateOps THEN "create" ELSE "delete"

\* position after `except ApiException` when the read raised (found is False):
\* create_or_update_* go on to the create call, delete_* log "was not found"
AfterReadFailure(op, status) ==
    IF op \in CreateOrUpdateOps THEN "create" ELSE "done"

\* mutant: a failed read is reported to the caller of delete_*
RaisedAfterReadFailureStrict(op) == "PolyaxonK8SError"

\* what a delete_* handler raises when the read raised: nothing, it logs
\* "was not found" and returns
RaisedAfterReadFailure(op) == "none"

\* mutant: the handler returns as soon as the resource is found
AfterReadSuccessReturns(op) == "done"

\* position after a successful read: <kind>_found = True, then the patch
\* (create_or_update_*) or the delete (delete_*) call
AfterReadSuccess(op) ==
    IF op \in CreateOrUpdateOps THEN "patch" ELSE "delete"

\* mutant: the create call sits after the try block and runs on every path
AfterPatchFallsThrough(op) == "create"

\* position after the patch call returned: the try block is over and so is
\* the handler
AfterPatch(op) == "done"

\* mutant: a patch that raises 404 is taken for a missing resource
AfterPatchFailureCreates(op, status) ==
    IF status = "NotFound" THEN "create" ELSE "done"

\* position after the patch call raised: found is True, so the except block
\* logs or raises and the handler is over; the create branch is not taken
AfterPatchFailure(op, status) == "done"

\* mutant: every handler behaves as if it had a reraise flag, default False
RaisedAfterFoundByFlag(op, reraise) ==
    IF reraise THEN "PolyaxonK8SError" ELSE "none"

\* what the except block raises when the call after a successful read
\* (patch or delete) raised, or when a metadata call raised
RaisedAfterFound(op, reraise) ==
    IF HasReraise(op)
    THEN (IF reraise THEN "PolyaxonK8SError" ELSE "none")
    ELSE "PolyaxonK8SError"

\* mutant: the create call is guarded like the others and only logs
RaisedByCreateSwallowed(op) == "none"

\* what reaches the caller when the create call inside the except block raises
RaisedByCreate(op) == "ApiException"

\* ---- handler entry ----
\* History kept for the two-call properties: the caller's previous
\* create_or_update_* / delete_* call, when the cluster failed none of its
\* client calls other than a first read reporting not-found.
Undisturbed(k) ==
    /\ k.pc = "done"
    /\ k.op \in CreateOrUpdateOps \cup DeleteOps
    /\ \A i \in DOMAIN k.log :
          k.log[i].status # "ok" => (i = 1 /\ k.log[i].status = "NotFound")

FirstCall(op) ==
    CASE op = "get_version" -> "get_code"
      [] op = "get_node_items" -> "list_node"
      [] op = "update_node_labels" -> "patch_node"
      [] OTHER -> "read"

Invoke(c) ==
    /\ call[c].pc \in {"idle", "done"}
    /\ \E op \in Ops :
       \E nm \in (IF op \in {"get_version", "get_node_items"} THEN {NoName} ELSE Names) :
       \E b \in (IF op \in CreateOrUpdateOps \cup {"update_node_labels"}
                 THEN Bodies ELSE {Absent}) :
       \E rr \in (IF HasReraise(op) THEN BOOLEAN ELSE {FALSE}) :
          call' = [call EXCEPT ![c] =
                     [IdleCall EXCEPT !.pc = FirstCall(op), !.op = op, !.name = nm,
                                      !.body = b, !.reraise = rr]]
    /\ prev' = [prev EXCEPT ![c] = IF Undisturbed(call[c]) THEN call[c] ELSE IdleCall]
    /\ UNCHANGED cluster

\* self.k8s_api.read_*(name, self.namespace); <kind>_found = True
ReadResource(c) ==
    LET k == call[c] IN
    /\ k.pc = "read"
    /\ \E st \in ReadStatuses(cluster, KindOf(k.op), k.name) :
         LET entry == ClientCall(k.op, "read", k.name, Absent, NoOptions, st)
             lg == Append(k.log, entry)
         IN  IF st = "ok"
             THEN call' = [call EXCEPT ![c] =
                      [k EXCEPT !.found = TRUE, !.log = lg,
                                !.pc = AfterReadSuccess(k.op)]]
             ELSE call' = [call EXCEPT ![c] =
                      [k EXCEPT !.log = lg, !.cause = st,
                                !.pc = AfterReadFailure(k.op, st),
                                !.raised = IF AfterReadFailure(k.op, st) = "done"
                                           THEN RaisedAfterReadFailure(k.op)
                                           ELSE "none",
                                !.outcome =
                                    IF AfterReadFailure(k.op, st) # "done"
                                    THEN "None"
                                    ELSE IF RaisedAfterReadFailure(k.op) = "none"
                                         THEN "NotFoundNoop" ELSE "Failed"]]
    /\ UNCHANGED <<cluster, prev>>

\* self.k8s_api.patch_*(name, self.namespace, body) and its except branch
PatchResource(c) ==
    LET k == call[c] IN
    /\ k.pc = "patch"
    /\ \E st \in PatchStatuses(cluster, KindOf(k.op), k.name) :
         LET entry == ClientCall(k.op, "patch", k.name, k.body, NoOptions, st)
             lg == Append(k.log, entry)
         IN  IF st = "ok"
             THEN /\ cluster' = [cluster EXCEPT ![<<KindOf(k.op), k.name>>] = k.body]
                  /\ call' = [call EXCEPT ![c] =
                       [k EXCEPT !.log = lg, !.pc = AfterPatch(k.op),
                                 !.outcome = "Patched"]]
             ELSE /\ cluster' = cluster
                  /\ call' = [call EXCEPT ![c] =
                       IF AfterPatchFailure(k.op, st) = "done"
                       THEN [k EXCEPT !.log = lg, !.pc = "done", !.outcome = "Failed",
                                      !.cause = st,
                                      !.raised = RaisedAfterFound(k.op, k.reraise)]
                       ELSE [k EXCEPT !.log = lg, !.cause = st,
                                      !.pc = AfterPatchFailure(k.op, st)]]
    /\ UNCHANGED prev

\* self.k8s_api.create_*(self.namespace, body), inside the except block
CreateResource(c) ==
    LET k == call[c] IN
    /\ k.pc = "create"
    /\ \E st \in CreateStatuses(cluster, KindOf(k.op), k.name) :
         LET entry == ClientCall(k.op, "create", NoName, k.body, NoOptions, st)
             lg == Append(k.log, entry)
         IN  IF st = "ok"
             THEN /\ cluster' = [cluster EXCEPT ![<<KindOf(k.op), k.name>>] = k.body]
                  /\ call' = [call EXCEPT ![c] =
                       [k EXCEPT !.log = lg, !.pc = "done", !.outcome = "Created"]]
             ELSE /\ cluster' = cluster
                  /\ call' = [call EXCEPT ![c] =
                       [k EXCEPT !.log = lg, !.pc = "done", !.outcome = "Failed",
                                 !.cause = st, !.raised = RaisedByCreate(k.op)]]
    /\ UNCHANGED prev

\* self.k8s_api.delete_*(name, self.namespace, V1DeleteOptions(...)) and its
\* except branch
DeleteResource(c) ==
    LET k == call[c] IN
    /\ k.pc = "delete"
    /\ \E st \in DeleteStatuses(cluster, KindOf(k.op), k.name) :
         LET entry == ClientCall(k.op, "delete", k.name, Absent, DeleteOptionsOf(k.op), st)
             lg == Append(k.log, entry)
         IN  IF st = "ok"
             THEN /\ cluster' = [cluster EXCEPT ![<<KindOf(k.op), k.name>>] = Absent]
                  /\ call' = [call EXCEPT ![c] =
                       [k EXCEPT !.log = lg, !.pc = "done", !.outcome = "Deleted"]]
             ELSE /\ cluster' = cluster
                  /\ call' = [call EXCEPT ![c] =
                       [k EXCEPT !.log = lg, !.pc = "done", !.outcome = "Failed",
                                 !.cause = st,
                                 !.raised = RaisedAfterFound(k.op, k.reraise)]]
    /\ UNCHANGED prev

\* mutant: the labels are sent as the patch body itself
NodePatchBodyBare(labels) == [labels |-> labels]

\* update_node_labels: body = {'metadata': {'labels': labels}}
NodePatchBody(labels) == [metadata |-> [labels |-> labels]]

\* get_version, get_node_items, update_node_labels: one client call, no read
MetadataCall(c) ==
    LET k == call[c] IN
    /\ k.pc \in {"get_code", "list_node", "patch_node"}
    /\ \E st \in (IF k.pc = "patch_node" THEN NodeStatuses ELSE VersionStatuses) :
         LET entry == IF k.pc = "patch_node"
                      THEN ClientCall(k.op, "patch", k.name, NodePatchBody(k.body),
                                      NoOptions, st)
                      ELSE ClientCall(k.op, k.pc, NoName, Absent, NoOptions, st)
             lg == Append(k.log, entry)
         IN  IF st = "ok"
             THEN call' = [call EXCEPT ![c] =
                       [k EXCEPT !.log = lg, !.pc = "done", !.outcome = "Returned"]]
             ELSE call' = [call EXCEPT ![c] =
                       [k EXCEPT !.log = lg, !.pc = "done", !.outcome = "Failed",
                                 !.cause = st,
                                 !.raised = RaisedAfterFound(k.op, k.reraise)]]
    /\ UNCHANGED <<cluster, prev>>

Step(c) ==
    \/ Invoke(c)
    \/ ReadResource(c)
    \/ PatchResource(c)
    \/ CreateResource(c)
    \/ DeleteResource(c)
    \/ MetadataCall(c)

\* one synchronous caller: every call runs to completion before the next
Next == \E c \in SeqCallers : Step(c)

Spec == Init /\ [][Next]_vars

\* ---- uncoordinated callers ----
\* The manager holds no lock and no state between its client calls, so the
\* calls of two callers (threads, processes) interleave at every client call.
\* The cluster may hold one object when the callers arrive.
InitRace ==
    /\ \E id \in Kinds \X Names : \E b \in {Absent} \cup Bodies :
          cluster = [x \in Kinds \X Names |-> IF x = id THEN b ELSE Absent]
    /\ call = [c \in Callers |-> IdleCall]
    /\ prev = [c \in Callers |-> IdleCall]

\* each caller makes one call
InvokeOnce(c) == call[c].pc = "idle" /\ Invoke(c)

NextRace ==
    \E c \in Callers :
        \/ InvokeOnce(c)
        \/ ReadResource(c)
        \/ PatchResource(c)
        \/ CreateResource(c)
        \/ DeleteResource(c)
        \/ MetadataCall(c)

SpecRace == InitRace /\ [][NextRace]_vars

\* ---- vocabulary of the properties ----
NamespacedKinds == {"ConfigMap", "Service", "Pod", "Deployment", "PersistentVolumeClaim"}
MutatingApis == {"create", "patch", "delete"}

Calls(log, api) == {i \in DOMAIN log : log[i].api = api}
Count(log, api) == Cardinality(Calls(log, api))
Failures(log) == {i \in DOMAIN log : log[i].status # "ok"}
Finished(k) == k.pc = "done"
\* no call of this kind issued by the handler has failed
NoneFailed(log, api) == \A i \in Calls(log, api) : log[i].status = "ok"

\* the call began with a read that reported not-found / succeeded / failed otherwise
ReadNotFound(k) == Len(k.log) >= 1 /\ k.log[1].api = "read" /\ k.log[1].status = "NotFound"
ReadFound(k) == Len(k.log) >= 1 /\ k.log[1].api = "read" /\ k.log[1].status = "ok"
ReadOtherFailure(k) ==
    Len(k.log) >= 1 /\ k.log[1].api = "read" /\ k.log[1].status \notin {"ok", "NotFound"}

\* C1: a finished create_or_update_<kind> call whose read reported not-found
\* and that saw no create call fail issued exactly one create call,
\* carrying the caller's body (and the manager's namespace for namespaced
\* kinds, none for persistent volumes), issued no patch call, ended Created
\* and raised nothing.
C1_CreateWhenAbsent ==
    \A c \in Callers :
        LET k == call[c] IN
        (Finished(k) /\ k.op \in CreateOrUpdateOps /\ ReadNotFound(k)
            /\ NoneFailed(k.log, "create"))
        => /\ Count(k.log, "create") = 1
           /\ \A i \in Calls(k.log, "create") :
                /\ k.log[i].body = k.body
                /\ k.log[i].namespace =
                      (IF KindOf(k.op) \in NamespacedKinds THEN namespace ELSE "")
           /\ Count(k.log, "patch") = 0
           /\ k.outcome = "Created"
           /\ k.raised = "none"

C1_Witness ==
    \E c \in Callers :
        /\ Finished(call[c]) /\ call[c].op = "create_or_update_volume_claim"
        /\ ReadNotFound(call[c]) /\ Failures(call[c].log) = {1}
        /\ call[c].outcome = "Created"

\* C2: a finished create_or_update_<kind> call whose read succeeded and that
\* saw no patch call fail issued exactly one patch call with the caller's
\* name and body, issued no create call, ended Patched and raised nothing.
C2_PatchWhenPresent ==
    \A c \in Callers :
        LET k == call[c] IN
        (Finished(k) /\ k.op \in CreateOrUpdateOps /\ ReadFound(k)
            /\ NoneFailed(k.log, "patch"))
        => /\ Count(k.log, "patch") = 1
           /\ \A i \in Calls(k.log, "patch") :
                k.log[i].body = k.body /\ k.log[i].name = k.name
           /\ Count(k.log, "create") = 0
           /\ k.outcome = "Patched"
           /\ k.raised = "none"

C2_Witness ==
    \E c \in Callers :
        /\ Finished(call[c]) /\ call[c].op = "create_or_update_deployment"
        /\ ReadFound(call[c]) /\ Failures(call[c].log) = {}
        /\ call[c].outcome = "Patched"

\* C3: a finished delete_<kind> call whose read reported not-found issued no
\* delete call, raised nothing and ended NotFoundNoop.
C3_DeleteWhenAbsentIsNoop ==
    \A c \in Callers :
        LET k == call[c] IN
        (Finished(k) /\ k.op \in DeleteOps /\ ReadNotFound(k))
        => /\ Count(k.log, "delete") = 0
           /\ k.raised = "none"
           /\ k.outcome = "NotFoundNoop"

C3_Witness ==
    \E c \in Callers :
        /\ Finished(call[c]) /\ call[c].op = "delete_pod"
        /\ ReadNotFound(call[c]) /\ call[c].outcome = "NotFoundNoop"

\* C4: a finished delete_<kind> call whose read succeeded and that saw no
\* delete call fail issued exactly one delete call, for the caller's name
\* (and the manager's namespace for namespaced kinds), ended Deleted and
\* raised nothing.
C4_DeleteWhenPresent ==
    \A c \in Callers :
        LET k == call[c] IN
        (Finished(k) /\ k.op \in DeleteOps /\ ReadFound(k)
            /\ NoneFailed(k.log, "delete"))
        => /\ Count(k.log, "delete") = 1
           /\ \A i \in Calls(k.log, "delete") :
                /\ k.log[i].name = k.name
                /\ k.log[i].namespace =
                      (IF KindOf(k.op) \in NamespacedKinds THEN namespace ELSE "")
           /\ k.outcome = "Deleted"
           /\ k.raised = "none"

C4_Witness ==
    \E c \in Callers :
        /\ Finished(call[c]) /\ call[c].op = "delete_volume_claim"
        /\ ReadFound(call[c]) /\ Failures(call[c].log) = {}
        /\ call[c].outcome = "Deleted"

\* C5: a finished create_or_update_<kind> or delete_<kind> call whose read
\* failed with a failure other than not-found ended Failed and issued no
\* create, patch or delete call.
C5_ReadFailureStopsTheCall ==
    \A c \in Callers :
        LET k == call[c] IN
        (Finished(k) /\ k.op \in CreateOrUpdateOps \cup DeleteOps /\ ReadOtherFailure(k))
        => /\ k.outcome = "Failed"
           /\ \A i \in DOMAIN k.log : k.log[i].api \notin MutatingApis

\* C6: a finished create_or_update_<kind> or delete_<kind> call whose read
\* failed with a failure other than not-found raised to its caller, whatever
\* the reraise flag.
C6_ReadFailureIsRaised ==
    \A c \in Callers :
        LET k == call[c] IN
        (Finished(k) /\ k.op \in CreateOrUpdateOps \cup DeleteOps /\ ReadOtherFailure(k))
        => k.raised # "none"

\* C7: idempotence of create_or_update_<kind>.  Two successive calls with the
\* same name and body, the first starting with the resource absent and no
\* client call failing but that first read, end Created then Patched with one
\* create call over both; and the resource exists after any such call.
C7_EnsurePresentIdempotent ==
    \A c \in Callers :
        LET k == call[c]
            p == prev[c]
        IN
        /\ (Finished(k) /\ k.op \in CreateOrUpdateOps
               /\ Failures(k.log) \subseteq {1}
               /\ (Failures(k.log) = {1} => ReadNotFound(k)))
           => Present(cluster, KindOf(k.op), k.name)
        /\ (Finished(k) /\ k.op \in CreateOrUpdateOps /\ Finished(p)
               /\ p.op = k.op /\ p.name = k.name /\ p.body = k.body
               /\ ReadNotFound(p) /\ Failures(p.log) = {1}
               /\ Failures(k.log) = {})
           => /\ p.outcome = "Created"
              /\ k.outcome = "Patched"
              /\ Count(p.log, "create") + Count(k.log, "create") = 1
              /\ p.raised = "none" /\ k.raised = "none"

C7_Witness ==
    \E c \in Callers :
        /\ Finished(call[c]) /\ call[c].op = "create_or_update_pod"
        /\ Finished(prev[c]) /\ prev[c].op = call[c].op
        /\ prev[c].name = call[c].name /\ prev[c].body = call[c].body
        /\ ReadNotFound(prev[c]) /\ prev[c].outcome = "Created"
        /\ Failures(call[c].log) = {} /\ call[c].outcome = "Patched"

\* C8: idempotence of delete_<kind>.  Two successive calls with the same name,
\* the first starting with the resource present and no client call failing
\* but a read reporting not-found, end Deleted then NotFoundNoop with one
\* delete call over both, neither raises; and the resource is absent after
\* any such call.
C8_EnsureAbsentIdempotent ==
    \A c \in Callers :
        LET k == call[c]
            p == prev[c]
        IN
        /\ (Finished(k) /\ k.op \in DeleteOps
               /\ Failures(k.log) \subseteq {1}
               /\ (Failures(k.log) = {1} => ReadNotFound(k)))
           => ~Present(cluster, KindOf(k.op), k.name)
        /\ (Finished(k) /\ k.op \in DeleteOps /\ Finished(p)
               /\ p.op = k.op /\ p.name = k.name
               /\ ReadFound(p) /\ Failures(p.log) = {}
               /\ Failures(k.log) \subseteq {1}
               /\ (Failures(k.log) = {1} => ReadNotFound(k)))
           => /\ p.outcome = "Deleted"
              /\ k.outcome = "NotFoundNoop"
              /\ Count(p.log, "delete") + Count(k.log, "delete") = 1
              /\ p.raised = "none" /\ k.raised = "none"

C8_Witness ==
    \E c \in Callers :
        /\ Finished(call[c]) /\ call[c].op = "delete_volume"
        /\ Finished(prev[c]) /\ prev[c].op = call[c].op
        /\ prev[c].name = call[c].name
        /\ ReadFound(prev[c]) /\ prev[c].outcome = "Deleted"
        /\ ReadNotFound(call[c]) /\ call[c].outcome = "NotFoundNoop"

\* C9: whatever a public operation raises to its caller is a PolyaxonK8SError;
\* no ApiException of the client reaches the caller.
C9_OnlyWrappedErrors ==
    \A c \in Callers : call[c].raised \in {"none", "PolyaxonK8SError"}

\* C10: at every point of a create_or_update_<kind> or delete_<kind> call, the
\* call has issued at most one read call, which came first, and at most one
\* create, patch or delete call, which came last: never a create and a patch,
\* no second read, no call after a write.
C10_OneReadOneWrite ==
    \A c \in Callers :
        LET k == call[c] IN
        k.op \in CreateOrUpdateOps \cup DeleteOps
        => /\ Count(k.log, "read") <= 1
           /\ Calls(k.log, "read") \subseteq {1}
           /\ Cardinality({i \in DOMAIN k.log : k.log[i].api \in MutatingApis}) <= 1
           /\ ~(Count(k.log, "create") >= 1 /\ Count(k.log, "patch") >= 1)
           /\ \A i \in DOMAIN k.log :
                k.log[i].api \in MutatingApis => i = Len(k.log) /\ Finished(k)
           /\ Len(k.log) <= 2

C10_Witness ==
    \E c \in Callers :
        /\ Finished(call[c]) /\ call[c].op = "create_or_update_volume_claim"
        /\ Len(call[c].log) = 2
        /\ call[c].log[1].api = "read" /\ call[c].log[1].status = "Forbidden"
        /\ call[c].log[2].api = "create" /\ call[c].log[2].status = "Conflict"

\* ---- two callers on one identity ----
SameIdentity(a, b) == KindOf(a.op) = KindOf(b.op) /\ a.name = b.name
SucceededCalls(log, api) == {i \in Calls(log, api) : log[i].status = "ok"}
\* the cluster failed this call only by answering 404 to a call on a missing
\* object or 409 to a create of an existing one
OnlyRaceFailures(k) ==
    \A i \in DOMAIN k.log : k.log[i].status \in {"ok", "NotFound", "Conflict"}

\* C11: two concurrent create_or_update_<kind> calls on the same identity.
\* In every interleaving at most one of their create calls succeeds.  When
\* both have read not-found and both have issued their create, with no
\* failure but the cluster's rejection of the second create, exactly one
\* create succeeded, its caller ended Created without raising, the other
\* caller's create was rejected and that failure was raised to that caller,
\* and the resource is present.
C11_CreateRace ==
    \A a, b \in Callers :
        LET ka == call[a]
            kb == call[b]
        IN
        (a # b /\ ka.op \in CreateOrUpdateOps /\ kb.op \in CreateOrUpdateOps
            /\ SameIdentity(ka, kb))
        => /\ Cardinality(SucceededCalls(ka.log, "create"))
                + Cardinality(SucceededCalls(kb.log, "create")) <= 1
           /\ (Finished(ka) /\ Finished(kb) /\ ReadNotFound(ka) /\ ReadNotFound(kb)
                 /\ OnlyRaceFailures(ka) /\ OnlyRaceFailures(kb)
                 /\ SucceededCalls(ka.log, "create") # {})
              => /\ Count(ka.log, "create") = 1 /\ Count(kb.log, "create") = 1
                 /\ ka.outcome = "Created" /\ ka.raised = "none"
                 /\ kb.log[2].status = "Conflict"
                 /\ kb.outcome = "Failed" /\ kb.raised # "none"
                 /\ Present(cluster, KindOf(ka.op), ka.name)

C11_Witness ==
    /\ Finished(call[1]) /\ Finished(call[2])
    /\ call[1].op = "create_or_update_service" /\ call[2].op = call[1].op
    /\ call[1].name = call[2].name
    /\ ReadNotFound(call[1]) /\ ReadNotFound(call[2])
    /\ call[1].outcome = "Created"
    /\ Len(call[2].log) = 2 /\ call[2].log[2].api = "create"
    /\ call[2].log[2].status = "Conflict" /\ call[2].raised # "none"

FailedCalls(log, api) == {i \in Calls(log, api) : log[i].status # "ok"}

\* C12: a finished delete_deployment call whose read succeeded issued exactly
\* one delete call and its delete options carry propagation policy
\* "Foreground"; no delete call of any other handler carries that policy.
C12_ForegroundForDeploymentOnly ==
    \A c \in Callers :
        LET k == call[c] IN
        /\ (Finished(k) /\ k.op = "delete_deployment" /\ ReadFound(k))
           => /\ Count(k.log, "delete") = 1
              /\ \A i \in Calls(k.log, "delete") :
                   /\ k.log[i].options.given
                   /\ k.log[i].options.propagation_policy = "Foreground"
        /\ (k.op \in DeleteOps /\ k.op # "delete_deployment")
           => \A i \in Calls(k.log, "delete") :
                   k.log[i].options.propagation_policy # "Foreground"

C12_Witness ==
    \E c \in Callers :
        /\ Finished(call[c]) /\ call[c].op = "delete_deployment"
        /\ ReadFound(call[c]) /\ call[c].outcome = "Deleted"
        /\ call[c].log[2].options.propagation_policy = "Foreground"

\* C13: a finished create_or_update_<kind> call whose read reported not-found
\* and whose create call failed ended Failed and raised to its caller, for
\* every kind and every value of the reraise flag.
C13_CreateFailureAlwaysRaised ==
    \A c \in Callers :
        LET k == call[c] IN
        (Finished(k) /\ k.op \in CreateOrUpdateOps /\ ReadNotFound(k)
            /\ FailedCalls(k.log, "create") # {})
        => /\ k.raised # "none"
           /\ k.outcome = "Failed"

C13_Witness ==
    \E c \in Callers :
        /\ Finished(call[c]) /\ call[c].op = "create_or_update_config_map"
        /\ ~call[c].reraise
        /\ ReadNotFound(call[c]) /\ FailedCalls(call[c].log, "create") # {}
        /\ call[c].raised # "none"

C15_AsStated ==
    \A c \in Callers :
        LET k == call[c] IN
        (Finished(k) /\ k.op \in DeleteOps /\ ReadFound(k)
            /\ FailedCalls(k.log, "delete") # {})
        => /\ k.outcome = "Failed"
           /\ IF KindOf(k.op) \in {"ConfigMap", "PersistentVolume", "PersistentVolumeClaim"}
              THEN (k.raised # "none") = k.reraise
              ELSE k.raised # "none"

\* C15 (amended): a finished delete_<kind> call whose read succeeded and whose
\* delete call failed ended Failed and raised PolyaxonK8SError to its caller,
\* except delete_config_map called with reraise false, which raised nothing;
\* the raise is unconditional for service, pod, deployment, persistent volume
\* and persistent volume claim.
C15_DeleteFailure ==
    \A c \in Callers :
        LET k == call[c] IN
        (Finished(k) /\ k.op \in DeleteOps /\ ReadFound(k)
            /\ FailedCalls(k.log, "delete") # {})
        => /\ k.outcome = "Failed"
           /\ IF k.op = "delete_config_map" /\ ~k.reraise
              THEN k.raised = "none"
              ELSE k.raised = "PolyaxonK8SError"

C15_Witness ==
    \E c \in Callers :
        /\ Finished(call[c]) /\ call[c].op = "delete_volume_claim"
        /\ ReadFound(call[c]) /\ FailedCalls(call[c].log, "delete") # {}
        /\ call[c].raised = "PolyaxonK8SError"

\* the API version string of each kind
ApiVersionOfKind(kind) ==
    IF kind = "Deployment" THEN "extensions/v1beta1" ELSE "v1"

C17_BlindPatch ==
    \A c \in Callers :
        LET k == call[c] IN
        k.op = "update_node_labels"
        => /\ ~Finished(k) => k.log = <<>>
           /\ Finished(k) =>
                /\ Len(k.log) = 1
                /\ k.log[1].api = "patch" /\ k.log[1].kind = "Node"
                /\ k.log[1].name = k.name
                /\ k.log[1].body = [metadata |-> [labels |-> k.body]]
                /\ (k.raised # "none") = (k.log[1].status # "ok" /\ k.reraise)

C17_Witness ==
    \E c \in Callers :
        /\ Finished(call[c]) /\ call[c].op = "update_node_labels"
        /\ call[c].log[1].status = "NotFound" /\ call[c].reraise
        /\ call[c].raised = "PolyaxonK8SError"

\* the create_or_update_* calls that raise on every failure they handle:
\* those without a reraise flag, and create_or_update_config_map with reraise
AlwaysRaising(k) ==
    /\ k.op \in CreateOrUpdateOps
    /\ (k.op = "create_or_update_config_map" => k.reraise)

\* C18: a finished create_or_update_<kind> call that raises on every failure
\* (no reraise flag, or config map with reraise true) and returned normally
\* saw exactly one of its create or patch calls succeed, and with a single
\* caller the resource then holds the supplied body.
C18_NormalReturnMeansWritten ==
    \A c \in Callers :
        LET k == call[c] IN
        (Finished(k) /\ AlwaysRaising(k) /\ k.raised = "none")
        => /\ Cardinality(SucceededCalls(k.log, "create")
                            \cup SucceededCalls(k.log, "patch")) = 1
           /\ FailedCalls(k.log, "create") \cup FailedCalls(k.log, "patch") = {}
           /\ cluster[<<KindOf(k.op), k.name>>] = k.body

C18_Witness ==
    \E c \in Callers :
        /\ Finished(call[c]) /\ call[c].op = "create_or_update_config_map"
        /\ call[c].reraise /\ call[c].raised = "none"
        /\ ReadFound(call[c]) /\ call[c].outcome = "Patched"

C20_DeleteRace ==
    \A a, b \in Callers :
        LET ka == call[a]
            kb == call[b]
        IN
        (a # b /\ ka.op \in DeleteOps /\ kb.op \in DeleteOps /\ SameIdentity(ka, kb)
            /\ OnlyRaceFailures(ka) /\ OnlyRaceFailures(kb))
        => /\ Cardinality(SucceededCalls(ka.log, "delete"))
                + Cardinality(SucceededCalls(kb.log, "delete")) <= 1
           /\ (Finished(ka) /\ Finished(kb))
                => ~Present(cluster, KindOf(ka.op), ka.name)
           /\ (Finished(kb) /\ ReadFound(kb) /\ FailedCalls(kb.log, "delete") # {})
                => /\ SucceededCalls(ka.log, "delete") # {}
                   /\ kb.outcome = "Failed"
                   /\ IF kb.op = "delete_config_map" /\ ~kb.reraise
                      THEN kb.raised = "none"
                      ELSE kb.raised = "PolyaxonK8SError"

C20_Witness ==
    /\ Finished(call[1]) /\ Finished(call[2])
    /\ call[1].op = "delete_volume" /\ call[2].op = "delete_volume"
    /\ call[1].name = call[2].name
    /\ call[1].outcome = "Deleted"
    /\ ReadFound(call[2]) /\ Len(call[2].log) = 2
    /\ call[2].log[2].status = "NotFound"
    /\ call[2].outcome = "Failed" /\ call[2].raised = "PolyaxonK8SError"
====
